---- MODULE Spec2Model ----
(***************************************************************************)
(* A state-machine model of the Miski ECS core as ported in this           *)
(* repository: World, EntityManager, ComponentManager, ArchetypeManager,   *)
(* Archetype, QueryManager, QueryCache, QueryResultPool and SystemManager. *)
(*                                                                         *)
(* Every handler of the program is an operator from a world record to a    *)
(* world record (the fields are the private fields of the managers); an    *)
(* action packs the variables into such a record, applies the whole        *)
(* handler, and unpacks the result.                                        *)
(***************************************************************************)
EXTENDS Integers, Sequences, FiniteSets, TLC

\* ------------------------------------------------------------------ bounds
\* WorldSpec.capacity of the modelled world.
Capacity == 2
\* WorldSpec.components.length of the modelled world.
ComponentCount == 2
\* Cap on QueryCache.#globalVersion (an unbounded counter in the program).
MaxVersion == 4
\* Number of System descriptors the user may register.
SystemCount == 2
\* Number of init()/destroy() calls that may be suspended at the same time.
MaxCalls == 2
\* Size (in bits) of the masks handed to isQueryMatch on its own.
ProbeSize == 33

Entities == 0 .. (Capacity - 1)
Components == 0 .. (ComponentCount - 1)
Systems == 1 .. SystemCount
Calls == 1 .. MaxCalls

Undefined == "undefined"

\* --------------------------------------------------------------- BooleanArray
\* A bitset of `size` bits backed by 32-bit words (Uint32Array `buffer`).
\* A bitset is [size, bits]; a word is the set of its set bit positions 0..31.
BooleanArray(size) == [size |-> size, bits |-> {}]

BooleanArray_fromBits(size, ids) == [size |-> size, bits |-> ids]

getTruthyCount(b) == Cardinality(b.bits)

\* Number of 32-bit words of the backing buffer.
BooleanArray_length(b) == (b.size + 31) \div 32

\* buffer[i] ?? 0: word i of the backing Uint32Array, the empty word past
\* its end.
BooleanArray_buffer(b, i) ==
  IF i < BooleanArray_length(b)
    THEN {j \in 0 .. 31 : (32 * i + j) \in b.bits}
    ELSE {}

RECURSIVE Pow2(_)
Pow2(n) == IF n = 0 THEN 1 ELSE 2 * Pow2(n - 1)

RECURSIVE WordNumber(_)
\* The number a word holds (only used for masks without bit 31).
WordNumber(word) ==
  IF word = {} THEN 0
  ELSE LET j == CHOOSE x \in word : TRUE
       IN  Pow2(j) + WordNumber(word \ {j})

RECURSIVE WordsToString(_, _)
WordsToString(b, i) ==
  IF i = BooleanArray_length(b) - 1
    THEN ToString(WordNumber(BooleanArray_buffer(b, i)))
    ELSE ToString(WordNumber(BooleanArray_buffer(b, i))) \o "," \o WordsToString(b, i + 1)

\* buffer.toString(): the decimal words joined by commas.
BooleanArray_toString(b) == WordsToString(b, 0)

\* ------------------------------------------------------- JavaScript numbers
\* A number read from a Uint32Array is non-negative; the result of `&` is a
\* signed 32-bit integer (negative when bit 31 is set).  Two numbers are
\* strictly equal iff sign and digits agree.
Uint32Value(word) == [sign |-> 1, digits |-> word]

Int32Value(word) == [sign |-> IF 31 \in word THEN -1 ELSE 1, digits |-> word]

\* a & b
BitAnd(a, b) == Int32Value(a \cap b)

Zero == Uint32Value({})

\* ------------------------------------------------------------ isQueryMatch
\* query.ts isQueryMatch(target, query): query is a record with and/or/not.
isQueryMatch(target, query) ==
  LET idx == 0 .. (BooleanArray_length(target) - 1)
      t(i) == BooleanArray_buffer(target, i)
      and(i) == BooleanArray_buffer(query.and, i)
      not(i) == BooleanArray_buffer(query.not, i)
      or(i) == BooleanArray_buffer(query.or, i)
  IN  IF getTruthyCount(target) = 0 THEN FALSE
      ELSE IF \E i \in idx : BitAnd(t(i), and(i)) # Uint32Value(and(i)) THEN FALSE
      ELSE IF \E i \in idx : BitAnd(t(i), not(i)) # Zero THEN FALSE
      ELSE IF getTruthyCount(query.or) > 0
              /\ ~(\E i \in idx : BitAnd(t(i), or(i)) # Zero) THEN FALSE
      ELSE TRUE

\* ------------------------------------------------------------------ inputs
\* The Query objects user code holds.  A Query is its three de-duplicated
\* component sets (Query constructor); a component descriptor registered in
\* the world is named by the id its instance gets.
Queries ==
  [ qAll  |-> [all |-> {0}, any |-> {}, none |-> {}],
    qNone |-> [all |-> {}, any |-> {}, none |-> {ComponentCount - 1}] ]

QueryObjects == DOMAIN Queries

EmptyMap == [k \in {} |-> k]

\* map.delete(key)
MapDelete(map, key) == [k \in (DOMAIN map) \ {key} |-> map[k]]

\* map.set(key, value)
MapSet(map, key, value) ==
  [k \in (DOMAIN map) \cup {key} |-> IF k = key THEN value ELSE map[k]]

\* f(g(w)) unless g threw: a thrown error propagates to the public caller.
Throw(w, error) == [w EXCEPT !.err = error]

\* -------------------------------------------------------------------- Query
\* A QuerySpec key: an array of components, or not defined.
NoArray == [defined |-> FALSE, items |-> << >>]

SomeArray(items) == [defined |-> TRUE, items |-> items]

\* all.some((c) => any.includes(c)), guarded by `all && any`.
SharesComponent(a, b) ==
  /\ a.defined
  /\ b.defined
  /\ \E i \in DOMAIN a.items, j \in DOMAIN b.items : a.items[i] = b.items[j]

\* isValidQuerySpec(spec), for arrays that hold components only.
isValidQuerySpec(spec) ==
  IF ~spec.all.defined /\ ~spec.any.defined /\ ~spec.none.defined THEN FALSE
  ELSE IF SharesComponent(spec.all, spec.any) THEN FALSE
  ELSE IF SharesComponent(spec.all, spec.none) THEN FALSE
  ELSE IF SharesComponent(spec.any, spec.none) THEN FALSE
  ELSE TRUE

\* [...new Set(array)]: the first occurrence of every element, in order.
RECURSIVE SetToArray(_)
SetToArray(array) ==
  IF array = << >> THEN << >>
  ELSE LET front == SetToArray(SubSeq(array, 1, Len(array) - 1))
           last == array[Len(array)]
       IN  IF \E i \in DOMAIN front : front[i] = last THEN front
           ELSE Append(front, last)

\* new Query(spec): the error it throws ("" when none) and its three arrays.
Query(spec) ==
  IF ~isValidQuerySpec(spec)
    THEN [err |-> "SpecError", all |-> << >>, any |-> << >>, none |-> << >>]
  ELSE [ err |-> "",
         all |-> SetToArray(spec.all.items),
         any |-> SetToArray(spec.any.items),
         none |-> SetToArray(spec.none.items) ]

\* ---------------------------------------------------------------- Archetype
Archetype(components, bitfield) ==
  [ id |-> BooleanArray_toString(bitfield),
    bitfield |-> bitfield,
    components |-> components,
    candidateCache |-> EmptyMap,
    entered |-> {},
    entities |-> {},
    exited |-> {} ]

\* A refresh that keeps the entered and exited sets.
Archetype_refresh_keeping(a) == a

\* A removal that leaves the entity a member of the archetype.
Archetype_removeEntity_keeping(a, entity) == a

Archetype_addEntity(a, entity) ==
  IF entity \in a.entities THEN a
  ELSE [a EXCEPT !.entities = @ \cup {entity}, !.entered = @ \cup {entity}]

Archetype_removeEntity(a, entity) ==
  IF entity \notin a.entities THEN a
  ELSE [a EXCEPT !.entered = @ \ {entity},
                 !.entities = @ \ {entity},
                 !.exited = @ \cup {entity}]

Archetype_getPopulationCount(a) == Cardinality(a.entities)

Archetype_refresh(a) == [a EXCEPT !.entered = {}, !.exited = {}]

\* isCandidate's answer; the candidate cache is keyed by the QueryInstance
\* object, named here by the Query object that created it.
Archetype_isCandidate(a, query) ==
  IF query.obj \in DOMAIN a.candidateCache
    THEN a.candidateCache[query.obj]
    ELSE isQueryMatch(a.bitfield, query)

\* isCandidate's effect on the archetype.
Archetype_memoCandidate(a, query) ==
  IF query.obj \in DOMAIN a.candidateCache THEN a
  ELSE [a EXCEPT !.candidateCache =
          MapSet(@, query.obj, isQueryMatch(a.bitfield, query))]

\* --------------------------------------------------------- ArchetypeManager
RootId == BooleanArray_toString(BooleanArray(ComponentCount))

\* ArchetypeManager.getEntityArchetype(entity): undefined where the array
\* holds nothing.
getEntityArchetype(w, entity) ==
  IF entity \in DOMAIN w.entityArchetypes THEN w.entityArchetypes[entity]
  ELSE Undefined

\* ArchetypeManager.set(archetype, entity); the archetype is named by its id.
\* entityArchetypes.length is one more than the largest index of the array.
ArchetypeManager_set(w, archetypeId, entity) ==
  IF archetypeId \notin DOMAIN w.registry THEN Throw(w, "NotRegisteredError")
  ELSE IF entity < 0 \/ \A e \in DOMAIN w.entityArchetypes : e < entity
    THEN Throw(w, "RangeError")
  ELSE
    LET current == w.entityArchetypes[entity]
        removed == IF current # Undefined
                     THEN [w.registry EXCEPT ![current] = Archetype_removeEntity(@, entity)]
                     ELSE w.registry
    IN  IF current = archetypeId THEN w
        ELSE [w EXCEPT !.entityArchetypes[entity] = archetypeId,
                       !.registry = [removed EXCEPT ![archetypeId] =
                                       Archetype_addEntity(@, entity)]]

RECURSIVE ArchetypeManager_initFrom(_, _)
ArchetypeManager_initFrom(w, i) ==
  IF i >= Capacity THEN w
  ELSE ArchetypeManager_initFrom(ArchetypeManager_set(w, RootId, i), i + 1)

\* ArchetypeManager.init(): seat every entity slot in the root archetype.
ArchetypeManager_init(w) == ArchetypeManager_initFrom(w, 0)

\* ArchetypeManager.reset(entity)
ArchetypeManager_reset(w, entity) == ArchetypeManager_set(w, RootId, entity)

\* An update that makes a new Archetype without looking in the registry.
ArchetypeManager_update_replacing(w, entity, components) ==
  LET oldArchetype == getEntityArchetype(w, entity)
      bitfield == BooleanArray_fromBits(ComponentCount, components)
      archetypeId == BooleanArray_toString(bitfield)
      created == MapSet(w.registry, archetypeId, Archetype(components, bitfield))
      removed == IF oldArchetype # Undefined
                   THEN [created EXCEPT ![oldArchetype] = Archetype_removeEntity(@, entity)]
                   ELSE created
  IN  IF oldArchetype = archetypeId THEN w
      ELSE [w EXCEPT !.registry = [removed EXCEPT ![archetypeId] =
                                     Archetype_addEntity(@, entity)],
                     !.registryOrder = IF archetypeId \in DOMAIN w.registry THEN @
                                       ELSE Append(@, archetypeId),
                     !.entityArchetypes = MapSet(@, entity, archetypeId)]

\* ArchetypeManager.update(entity, components), where the entity bitsets of
\* an archetype store every index they are given. Writing the array at an
\* index it does not hold adds that index.
ArchetypeManager_update(w, entity, components) ==
  LET oldArchetype == getEntityArchetype(w, entity)
      bitfield == BooleanArray_fromBits(ComponentCount, components)
      archetypeId == BooleanArray_toString(bitfield)
      created == IF archetypeId \in DOMAIN w.registry THEN w.registry
                 ELSE MapSet(w.registry, archetypeId, Archetype(components, bitfield))
      removed == IF oldArchetype # Undefined
                   THEN [created EXCEPT ![oldArchetype] = Archetype_removeEntity(@, entity)]
                   ELSE created
  IN  IF oldArchetype = archetypeId THEN w
      ELSE [w EXCEPT !.registry = [removed EXCEPT ![archetypeId] =
                                     Archetype_addEntity(@, entity)],
                     !.registryOrder = IF archetypeId \in DOMAIN w.registry THEN @
                                       ELSE Append(@, archetypeId),
                     !.entityArchetypes = MapSet(@, entity, archetypeId)]

\* ArchetypeManager.update(entity, components), where the entity bitsets of
\* an archetype throw RangeError for an index outside their size: the
\* archetype is already registered when archetype.addEntity is reached.
ArchetypeManager_update_rejecting(w, entity, components) ==
  LET bitfield == BooleanArray_fromBits(ComponentCount, components)
      archetypeId == BooleanArray_toString(bitfield)
  IN  IF entity \in Entities \/ getEntityArchetype(w, entity) # Undefined
        THEN ArchetypeManager_update(w, entity, components)
      ELSE IF archetypeId \in DOMAIN w.registry THEN Throw(w, "RangeError")
      ELSE [w EXCEPT !.registry = MapSet(@, archetypeId, Archetype(components, bitfield)),
                     !.registryOrder = Append(@, archetypeId),
                     !.err = "RangeError"]

\* The archetypes ArchetypeManager.refresh records for one query instance.
MatchingArchetypes(w, query) ==
  { id \in DOMAIN w.registry :
      /\ Archetype_isCandidate(w.registry[id], query)
      /\ Archetype_getPopulationCount(w.registry[id]) > 0 }

RECURSIVE MemoAll(_, _, _)
MemoAll(a, instances, ids) ==
  IF ids = {} THEN a
  ELSE LET id == CHOOSE x \in ids : TRUE
       IN  MemoAll(Archetype_memoCandidate(a, instances[id]), instances, ids \ {id})

\* A refresh that clears neither queryArchetypes nor query.archetypes.
ArchetypeManager_refresh_retaining(w) ==
  LET ids == DOMAIN w.instancesByID
      objs == { w.instancesByID[id].obj : id \in ids }
      byObj(o) == CHOOSE id \in ids : w.instancesByID[id].obj = o
  IN  [w EXCEPT
        !.queryArchetypes =
          [o \in objs |-> (IF o \in DOMAIN w.queryArchetypes
                              THEN w.queryArchetypes[o] ELSE {})
                            \cup MatchingArchetypes(w, w.instancesByID[byObj(o)])],
        !.instancesByID =
          [id \in ids |-> [w.instancesByID[id] EXCEPT
                             !.archetypes = @ \cup MatchingArchetypes(w, w.instancesByID[id])]],
        !.registry =
          [a \in DOMAIN w.registry |->
             Archetype_refresh(MemoAll(w.registry[a], w.instancesByID, ids))]]

\* ArchetypeManager.refresh(queries), queries = instancesByID.values()
ArchetypeManager_refresh(w) ==
  LET ids == DOMAIN w.instancesByID
      objs == { w.instancesByID[id].obj : id \in ids }
      byObj(o) == CHOOSE id \in ids : w.instancesByID[id].obj = o
  IN  [w EXCEPT
        !.queryArchetypes =
          [o \in objs |-> MatchingArchetypes(w, w.instancesByID[byObj(o)])],
        !.instancesByID =
          [id \in ids |-> [w.instancesByID[id] EXCEPT
                             !.archetypes = MatchingArchetypes(w, w.instancesByID[id])]],
        !.registry =
          [a \in DOMAIN w.registry |->
             Archetype_refresh(MemoAll(w.registry[a], w.instancesByID, ids))]]

\* --------------------------------------------------------- ComponentManager
\* getInstance(component) !== undefined
isRegistered(component) == component \in Components

\* Component.maxEntities of the world's components: the last one is
\* constructed with maxEntities: 1, the others without (null, written 0).
maxEntities(component) == IF component = ComponentCount - 1 THEN 1 ELSE 0

\* #getEntityComponentsDirect(entity): the instances, named by id.
getEntityComponentsDirect(w, entity) ==
  { c \in Components : entity \in w.owners[c] }

\* ComponentManager.getEntityComponents(entity) with an archetype manager
\* set: the components of the entity's archetype, none without archetype.
getEntityComponents(w, entity) ==
  IF getEntityArchetype(w, entity) # Undefined
    THEN w.registry[getEntityArchetype(w, entity)].components
  ELSE {}

\* ComponentManager.addToEntity(component, entity)
ComponentManager_addToEntity(w, component, entity) ==
  IF ~isRegistered(component) THEN Throw(w, "NotRegisteredError")
  ELSE [w EXCEPT !.owners[component] = @ \cup {entity},
                 !.changed[component] = @ \cup {entity}]

\* ComponentManager.removeFromEntity(component, entity)
ComponentManager_removeFromEntity(w, component, entity) ==
  IF ~isRegistered(component) THEN w
  ELSE [w EXCEPT !.owners[component] = @ \ {entity},
                 !.changed[component] = @ \ {entity}]

RECURSIVE RemoveEach(_, _, _)
RemoveEach(w, components, entity) ==
  IF components = {} THEN w
  ELSE LET c == CHOOSE x \in components : TRUE
       IN  RemoveEach(ComponentManager_removeFromEntity(w, c, entity),
                      components \ {c}, entity)

\* A refresh that keeps the changed bitsets.
ComponentManager_refresh_keeping(w) == w

\* ComponentManager.refresh()
ComponentManager_refresh(w) ==
  [w EXCEPT !.changed = [c \in Components |-> {}]]

\* Every component of the modelled world has one schema field F, a Uint8Array
\* view over `capacity` slots: an element assignment stores the value modulo
\* 2^8.
TypedArray_store(value) == value % 256

\* ComponentManager.setEntityData(component, entity, value), value = {F: v}
ComponentManager_setEntityData(w, component, entity, value) ==
  IF ~isRegistered(component) THEN w
  ELSE [w EXCEPT !.storage[component][entity] = TypedArray_store(value)]

\* instance.storage.partitions.F[entity] = value, written by user code
DirectWrite(w, component, entity, value) ==
  [w EXCEPT !.storage[component][entity] = TypedArray_store(value)]

\* StorageProxy: set entity(value)
StorageProxy_setEntity(w, component, value) ==
  IF value < 0 \/ value >= Capacity THEN Throw(w, "EntityNotFoundError")
  ELSE [w EXCEPT !.cursor[component] = value]

\* StorageProxy: the setter of field F
StorageProxy_setField(w, component, value) ==
  LET entity == w.cursor[component]
  IN  IF w.storage[component][entity] # value
        THEN [w EXCEPT !.storage[component][entity] = TypedArray_store(value),
                       !.changed[component] = @ \cup {entity}]
        ELSE w

\* ComponentManager.getChanged(component), the iterator consumed
getChanged(w, component) == w.changed[component]

\* ------------------------------------------------------------------- World
\* An assertion that lets every state pass.
assertWorldState_lenient(target, current) == ""

\* assertWorldState(target, current): the error it throws, "" when none.
assertWorldState(target, current) ==
  IF current = target THEN ""
  ELSE "WorldStateError"

\* QueryCache.invalidate()
QueryCache_invalidate(w) == [w EXCEPT !.version = @ + 1]

\* QueryManager.invalidate() without a query
QueryManager_invalidate(w) == QueryCache_invalidate(w)

\* A refresh that always refreshes the ComponentManager.
World_refresh_clearing(w, retainChanged) ==
  IF assertWorldState("initialized", w.state) # ""
    THEN Throw(w, assertWorldState("initialized", w.state))
  ELSE QueryManager_invalidate(ComponentManager_refresh(ArchetypeManager_refresh(w)))

\* World.refresh(retainChanged)
World_refresh(w, retainChanged) ==
  IF assertWorldState("initialized", w.state) # ""
    THEN Throw(w, assertWorldState("initialized", w.state))
  ELSE
    LET a == ArchetypeManager_refresh(w)
        c == IF ~retainChanged THEN ComponentManager_refresh(a) ELSE a
    IN  QueryManager_invalidate(c)

\* ------------------------------------------------------------ QueryManager
\* A compilation that sets the bit of every descriptor a Query lists.
createQueryInstance_unfiltered(query, obj) ==
  LET and == BooleanArray_fromBits(ComponentCount, query.all)
      or == BooleanArray_fromBits(ComponentCount, query.any)
      not == BooleanArray_fromBits(ComponentCount, query.none)
  IN  [ and |-> and, or |-> or, not |-> not,
        archetypes |-> {},
        components |-> query.all \cup query.any,
        id |-> BooleanArray_toString(and) \o ":" \o BooleanArray_toString(or)
                 \o ":" \o BooleanArray_toString(not),
        obj |-> obj ]

\* createQueryInstance(getInstances, size, query); obj names the new object.
\* getInstances(...).filter(Boolean) drops descriptors without an instance.
createQueryInstance(query, obj) ==
  LET andInstances == { c \in query.all : isRegistered(c) }
      orInstances == { c \in query.any : isRegistered(c) }
      notInstances == { c \in query.none : isRegistered(c) }
      and == BooleanArray_fromBits(ComponentCount, andInstances)
      or == BooleanArray_fromBits(ComponentCount, orInstances)
      not == BooleanArray_fromBits(ComponentCount, notInstances)
  IN  [ and |-> and, or |-> or, not |-> not,
        archetypes |-> {},
        components |-> andInstances \cup orInstances,
        id |-> BooleanArray_toString(and) \o ":" \o BooleanArray_toString(or)
                 \o ":" \o BooleanArray_toString(not),
        obj |-> obj ]

\* QueryManager.register(query): the manager afterwards.
register(w, q) ==
  LET queryId == w.idsByQuery[q]
      instance == createQueryInstance(Queries[q], q)
      stored == [w EXCEPT !.idsByQuery[q] = instance.id,
                          !.instancesByID = MapSet(@, instance.id, instance)]
  IN  IF queryId # Undefined /\ queryId \in DOMAIN w.instancesByID THEN w
      ELSE IF stored.state = "initialized" THEN World_refresh(stored, TRUE)
      ELSE stored

\* The instance register(query) returns.
registered(w, q) == register(w, q).instancesByID[register(w, q).idsByQuery[q]]

\* lastQueryVersion.get(queryId) ?? 0
lastVersionOf(w, queryId) ==
  IF queryId \in DOMAIN w.lastQueryVersion THEN w.lastQueryVersion[queryId] ELSE 0

\* QueryCache.getComponents(queryId, compute, lastVersion)
QueryCache_getComponents(w, queryId, instance, lastVersion) ==
  LET dropped == IF lastVersion < w.version
                   THEN [w EXCEPT !.componentCache = MapDelete(@, queryId)]
                   ELSE w
  IN  IF queryId \notin DOMAIN dropped.componentCache
        THEN [dropped EXCEPT !.componentCache = MapSet(@, queryId, instance.components)]
        ELSE dropped

\* getComponentsFromQuery(query): the manager afterwards.
getComponentsFromQuery(w, q) ==
  LET r == register(w, q)
      instance == registered(w, q)
      queryId == instance.id
      got == QueryCache_getComponents(r, queryId, instance, lastVersionOf(r, queryId))
  IN  [got EXCEPT !.lastQueryVersion = MapSet(@, queryId, got.version)]

\* The record getComponentsFromQuery(query) returns.
componentsResult(w, q) ==
  getComponentsFromQuery(w, q).componentCache[registered(w, q).id]

\* A release that pushes the array as it is.
releaseEntityArray_uncleared(w, array) == [w EXCEPT !.free = Append(@, array)]

\* QueryResultPool.releaseEntityArray(array)
releaseEntityArray(w, array) ==
  [w EXCEPT !.arrays[array] = {}, !.free = Append(@, array)]

\* QueryResultPool.acquireEntityArray(): pop, or a new array.
acquireEntityArray(w) ==
  IF w.free # << >>
    THEN [w EXCEPT !.free = SubSeq(@, 1, Len(@) - 1), !.acquired = w.free[Len(w.free)]]
    ELSE [w EXCEPT !.arrays = Append(@, {}), !.acquired = Len(w.arrays) + 1]

\* The compute callback of getEntitiesFromQuery: the union of the members of
\* the instance's archetypes, written into an acquired array.
computeEntities(w, instance) ==
  LET a == acquireEntityArray(w)
  IN  [a EXCEPT !.arrays[a.acquired] =
         UNION { a.registry[id].entities : id \in instance.archetypes }]

\* QueryCache.getEntities(queryId, compute, lastVersion)
QueryCache_getEntities(w, queryId, instance, lastVersion) ==
  LET released == IF queryId \in DOMAIN w.entityCache
                    THEN releaseEntityArray(w, w.entityCache[queryId])
                    ELSE w
      dropped == IF lastVersion < w.version
                   THEN [released EXCEPT !.entityCache = MapDelete(@, queryId)]
                   ELSE w
      computed == computeEntities(dropped, instance)
  IN  IF queryId \notin DOMAIN dropped.entityCache
        THEN [computed EXCEPT !.entityCache = MapSet(@, queryId, computed.acquired)]
        ELSE dropped

\* QueryCache.clear(): every cached array goes back to the pool, in the
\* order of the entity cache's entries, and both caches are emptied.
RECURSIVE ReleaseEach(_, _)
ReleaseEach(w, queryIds) ==
  IF queryIds = {} THEN w
  ELSE LET queryId == CHOOSE x \in queryIds : TRUE
       IN  ReleaseEach(releaseEntityArray(w, w.entityCache[queryId]),
                       queryIds \ {queryId})

QueryCache_clear(w) ==
  [ReleaseEach(w, DOMAIN w.entityCache) EXCEPT !.entityCache = EmptyMap,
                                                !.componentCache = EmptyMap]

\* getEntitiesFromQuery(query): the manager afterwards.
getEntitiesFromQuery(w, q) ==
  LET r == register(w, q)
      instance == registered(w, q)
      queryId == instance.id
      got == QueryCache_getEntities(r, queryId, instance, lastVersionOf(r, queryId))
  IN  [got EXCEPT !.lastQueryVersion = MapSet(@, queryId, got.version)]

\* The entities the iterator getEntitiesFromQuery(query) returns yields.
entitiesResult(w, q) ==
  LET after == getEntitiesFromQuery(w, q)
  IN  after.arrays[after.entityCache[registered(w, q).id]]

\* QueryManager.invalidate(query): the query's last seen version becomes the
\* cache's version, when the query is registered.
QueryManager_invalidateQuery(w, q) ==
  IF w.idsByQuery[q] # Undefined
    THEN [w EXCEPT !.lastQueryVersion = MapSet(@, w.idsByQuery[q], w.version)]
  ELSE w

\* Whether QueryCache.getEntities, called by entities.query(query), returns
\* the entry it holds instead of calling compute.
answersFromCache(w, q) ==
  LET r == register(w, q)
      queryId == registered(w, q).id
  IN  /\ queryId \in DOMAIN r.entityCache
      /\ ~(lastVersionOf(r, queryId) < r.version)

\* ArchetypeManager.query(queryInstance): the recorded archetypes, none when
\* the map has no entry for this instance object.
ArchetypeManager_query(w, instance) ==
  IF instance.obj \in DOMAIN w.queryArchetypes
    THEN w.queryArchetypes[instance.obj]
    ELSE {}

\* queryArchetypeEntities(query), consumed to its end: what it yields.
queryArchetypeEntities(w, q) ==
  LET r == register(w, q)
  IN  UNION { r.registry[id].entities : id \in ArchetypeManager_query(r, registered(w, q)) }

\* queryEnteredEntities(query), consumed to its end: what it yields.
queryEnteredEntities(w, q) ==
  LET r == register(w, q)
  IN  UNION { r.registry[id].entered : id \in ArchetypeManager_query(r, registered(w, q)) }

\* queryExitedEntities(query), consumed to its end: what it yields.
queryExitedEntities(w, q) ==
  LET r == register(w, q)
  IN  UNION { r.registry[id].exited : id \in ArchetypeManager_query(r, registered(w, q)) }

\* queryArchetypeEntities, queryEnteredEntities or queryExitedEntities
\* consumed to its end without interruption: the world afterwards.
queryConsumed(w, q) == [register(w, q) EXCEPT !.visitedArchetypeEntities = {}]

\* A generator object: pc is "idle" (none created), "start" (created, its
\* body not yet entered), "suspended" (at its yield) or "done"; archetypes
\* is what is left of the iterator over the query's archetype Set, its head
\* the archetype being scanned; pos is the position of the scan of that
\* archetype's bitset; yielded is what the generator has yielded so far.
NoGenerator ==
  [ pc |-> "idle", kind |-> "", q |-> "", archetypes |-> << >>, pos |-> 0,
    yielded |-> << >> ]

\* The Set ArchetypeManager.query returns iterates in insertion order:
\* ArchetypeManager.refresh fills it in the order of registry.values().
InRegistryOrder(order, ids) == SelectSeq(order, LAMBDA id : id \in ids)

\* archetype.getEntities(), getEntered() or getExited(): the bitset iterated.
Archetype_iterated(a, kind) ==
  IF kind = "queryEntities" THEN a.entities
  ELSE IF kind = "queryEntered" THEN a.entered
  ELSE a.exited

\* The generator's loops from where they stand up to the next yield, or to
\* the end of the body; truthyIndices scans the live bitset in ascending
\* order.
RECURSIVE Generator_resume(_)
Generator_resume(w) ==
  LET g == w.generator
  IN  IF g.archetypes = << >>
        THEN [w EXCEPT !.visitedArchetypeEntities = {}, !.generator.pc = "done"]
      ELSE
        LET rest == { e \in Archetype_iterated(w.registry[Head(g.archetypes)], g.kind) :
                        e >= g.pos }
            entity == CHOOSE e \in rest : \A x \in rest : e <= x
        IN  IF rest = {}
              THEN Generator_resume([w EXCEPT !.generator.archetypes = Tail(@),
                                              !.generator.pos = 0])
            ELSE IF entity \in w.visitedArchetypeEntities
              THEN Generator_resume([w EXCEPT !.generator.pos = entity + 1])
            ELSE [w EXCEPT !.visitedArchetypeEntities = @ \cup {entity},
                           !.generator.pos = entity + 1,
                           !.generator.yielded = Append(@, entity),
                           !.generator.pc = "suspended"]

\* The generator's body from its first line up to its first yield.
Generator_start(w) ==
  LET cleared == [w EXCEPT !.visitedArchetypeEntities = {}]
      r == register(cleared, w.generator.q)
      queryInstance == registered(cleared, w.generator.q)
  IN  IF queryInstance.obj \notin DOMAIN r.queryArchetypes
        THEN [r EXCEPT !.generator.pc = "done"]
      ELSE Generator_resume(
             [r EXCEPT !.generator.archetypes =
                InRegistryOrder(r.registryOrder, r.queryArchetypes[queryInstance.obj])])

\* generator.next()
Generator_next(w) ==
  IF w.generator.pc = "start" THEN Generator_start(w)
  ELSE IF w.generator.pc = "suspended" THEN Generator_resume(w)
  ELSE w

\* A second generator object made while w.generator is suspended, stepped
\* `steps` times by next() and then dropped: what it leaves in the world.
RECURSIVE Generator_stepped(_, _)
Generator_stepped(w, steps) ==
  IF steps = 0 THEN w ELSE Generator_stepped(Generator_next(w), steps - 1)

Generator_abandoned(w, kind, q, steps) ==
  LET second == [w EXCEPT !.generator =
                   [NoGenerator EXCEPT !.pc = "start", !.kind = kind, !.q = q]]
  IN  [Generator_stepped(second, steps) EXCEPT !.generator = w.generator]

\* ------------------------------------------------------------ EntityManager
\* BitPool.acquire(): a free id, -1 when every id is occupied.
BitPool_acquire(pool) == IF pool = Entities THEN {-1} ELSE Entities \ pool

\* BitPool.release(id)
BitPool_release(pool, entity) == pool \ {entity}

\* A returned Entity | undefined.
NoEntity == [defined |-> FALSE, value |-> 0]

SomeEntity(entity) == [defined |-> TRUE, value |-> entity]

\* A create that hands on whatever the pool returned.
EntityManager_create_unchecked(acquired) == SomeEntity(acquired)

\* EntityManager.create's return value for the id the pool handed out.
EntityManager_create(acquired) ==
  IF acquired = -1 THEN NoEntity ELSE SomeEntity(acquired)

\* EntityManager.isEntity(entity)
isEntity(entity) == entity >= 0 /\ entity < Capacity

\* EntityManager.destroy(entity)
EntityManager_destroy(w, entity) ==
  IF ~isEntity(entity) THEN Throw(w, "EntityNotFoundError")
  ELSE [w EXCEPT !.pool = BitPool_release(@, entity)]

\* EntityManager.getActiveCount()
getActiveCount(w) == Cardinality(w.pool)

\* EntityManager.getAvailableCount()
getAvailableCount(w) == Capacity - Cardinality(w.pool)

\* ------------------------------------------------------------- World's APIs
\* A Component descriptor the world was not constructed with.
UnregisteredDescriptor == ComponentCount

\* A string that is the name of no component of the world. The name of a
\* registered component resolves to its descriptor and is written as it.
UnregisteredName == ComponentCount + 1

\* getComponentByName(component): only a string is looked up.
getComponentByName(w, component) ==
  IF component = UnregisteredName THEN Throw(w, "NotRegisteredError") ELSE w

\* addComponentToEntity(component, entity)
addComponentToEntity(w, component, entity) ==
  LET named == getComponentByName(w, component)
      added == ComponentManager_addToEntity(w, component, entity)
      updated == ArchetypeManager_update(added, entity,
                                         getEntityComponentsDirect(added, entity))
  IN  IF named.err # "" THEN named
      ELSE IF added.err # "" THEN added
      ELSE IF updated.state = "initialized" THEN World_refresh(updated, TRUE)
      ELSE updated

\* removeComponentFromEntity(component, entity)
removeComponentFromEntity(w, component, entity) ==
  LET named == getComponentByName(w, component)
      removed == ComponentManager_removeFromEntity(w, component, entity)
      updated == ArchetypeManager_update(removed, entity,
                                         getEntityComponentsDirect(removed, entity))
  IN  IF named.err # "" THEN named
      ELSE IF updated.state = "initialized" THEN World_refresh(updated, TRUE)
      ELSE updated

\* destroyEntity(entity)
destroyEntity(w, entity) ==
  LET archetype == getEntityArchetype(w, entity)
      stripped == IF archetype # Undefined
                    THEN RemoveEach(w, w.registry[archetype].components, entity)
                    ELSE w
      reset == ArchetypeManager_reset(stripped, entity)
      destroyed == EntityManager_destroy(reset, entity)
  IN  IF reset.err # "" THEN reset
      ELSE IF destroyed.err # "" THEN destroyed
      ELSE QueryManager_invalidate(destroyed)

\* ----------------------------------------------------------- SystemManager
\* Every System descriptor is built on the same Query object.
SystemQuery == "qAll"

\* SystemManager.create(system): createSystemInstance queries the components
\* of the system's query, then the instance is stored under the system's name.
SystemManager_create(w, system) ==
  LET queried == getComponentsFromQuery(w, SystemQuery)
  IN  IF \E i \in 1 .. Len(w.systems) : w.systems[i] = system THEN w
      ELSE IF componentsResult(w, SystemQuery) = {}
        THEN Throw(queried, "NoComponentsFoundError")
      ELSE [queried EXCEPT !.systems = Append(@, system)]

\* delete this.registry[name]
SystemManager_delete(systems, system) ==
  SelectSeq(systems, LAMBDA x : x # system)

\* SystemManager.get(name) !== undefined
SystemManager_has(systems, system) ==
  \E i \in 1 .. Len(systems) : systems[i] = system

\* ---------------------------------------------------------------- the state
VARIABLES
  state,             \* World.#state
  initPromise,       \* World.#initPromise: "pending" or the state it resolved to
  pool,              \* EntityManager.pool: the occupied ids
  owners,            \* ComponentManager.#owners
  changed,           \* ComponentManager.#changed
  storage,           \* storage.partitions.F of each component, by entity
  cursor,            \* StorageProxy.#entity of each component's proxy
  registry,          \* ArchetypeManager.registry: id -> Archetype
  registryOrder,     \* the insertion order of the registry Map's keys
  visitedArchetypeEntities, \* World's scratch bitset of the generators
  generator,         \* a queryEntities/queryEntered/queryExited generator
                     \* user code holds: its position and what it yielded
  entityArchetypes,  \* ArchetypeManager.entityArchetypes (by archetype id)
  queryArchetypes,   \* ArchetypeManager.queryArchetypes (by instance object)
  idsByQuery,        \* QueryManager.idsByQuery
  instancesByID,     \* QueryManager.instancesByID
  lastQueryVersion,  \* QueryManager.lastQueryVersion
  version,           \* QueryCache.#globalVersion
  componentCache,    \* QueryCache.#componentCache
  entityCache,       \* QueryCache.#entityCache: id -> result array
  arrays,            \* the result arrays allocated so far, by number
  free,              \* QueryResultPool.#entityArrays
  systems,           \* SystemManager.registry, in insertion order
  calls,             \* the init()/destroy() calls that are suspended
  lastOp,            \* the last public call other than a query, and how it ended
  probe              \* the arguments and the result of isQueryMatch on its own

vars ==
  << state, initPromise, pool, owners, changed, storage, cursor, registry,
     registryOrder, visitedArchetypeEntities, generator,
     entityArchetypes, queryArchetypes, idsByQuery, instancesByID,
     lastQueryVersion, version, componentCache, entityCache, arrays, free,
     systems, calls, lastOp, probe >>

\* The world as the handlers see it; err and acquired are not state: they
\* carry a thrown error and a return value out of a handler.
World ==
  [ state |-> state, initPromise |-> initPromise, pool |-> pool,
    owners |-> owners, changed |-> changed, storage |-> storage,
    cursor |-> cursor, registry |-> registry,
    registryOrder |-> registryOrder,
    visitedArchetypeEntities |-> visitedArchetypeEntities,
    generator |-> generator,
    entityArchetypes |-> entityArchetypes, queryArchetypes |-> queryArchetypes,
    idsByQuery |-> idsByQuery, instancesByID |-> instancesByID,
    lastQueryVersion |-> lastQueryVersion, version |-> version,
    componentCache |-> componentCache, entityCache |-> entityCache,
    arrays |-> arrays, free |-> free, systems |-> systems,
    err |-> "", acquired |-> 0 ]

Becomes(after) ==
  \E w \in {after} :
    /\ w.version <= MaxVersion
    /\ state' = w.state
    /\ initPromise' = w.initPromise
    /\ pool' = w.pool
    /\ owners' = w.owners
    /\ changed' = w.changed
    /\ storage' = w.storage
    /\ cursor' = w.cursor
    /\ registry' = w.registry
    /\ registryOrder' = w.registryOrder
    /\ visitedArchetypeEntities' = w.visitedArchetypeEntities
    /\ generator' = w.generator
    /\ entityArchetypes' = w.entityArchetypes
    /\ queryArchetypes' = w.queryArchetypes
    /\ idsByQuery' = w.idsByQuery
    /\ instancesByID' = w.instancesByID
    /\ lastQueryVersion' = w.lastQueryVersion
    /\ version' = w.version
    /\ componentCache' = w.componentCache
    /\ entityCache' = w.entityCache
    /\ arrays' = w.arrays
    /\ free' = w.free
    /\ systems' = w.systems

worldVars ==
  << state, initPromise, pool, owners, changed, storage, cursor, registry,
     registryOrder, visitedArchetypeEntities, generator,
     entityArchetypes, queryArchetypes, idsByQuery, instancesByID,
     lastQueryVersion, version, componentCache, entityCache, arrays, free,
     systems >>

Outcome(w) == IF w.err = "" THEN "ok" ELSE w.err

\* A finished public call: its name, "ok" or the error it threw, and the
\* entity it returned (entities.create only).
Op(op, outcome, ret) == [op |-> op, outcome |-> outcome, ret |-> ret]

NoOp == Op("", "ok", NoEntity)

Idle == [kind |-> "idle", pc |-> "", rest |-> << >>]

NoProbe == [target |-> {}, and |-> {}, or |-> {}, not |-> {}, pc |-> "idle", result |-> FALSE]

\* The state after `new World({capacity, components})`.
Init ==
  /\ state = "uninitialized"
  /\ initPromise = "pending"
  /\ pool = {}
  /\ owners = [c \in Components |-> {}]
  /\ changed = [c \in Components |-> {}]
  /\ storage = [c \in Components |-> [e \in Entities |-> 0]]
  /\ cursor = [c \in Components |-> 0]
  /\ registry = MapSet(EmptyMap, RootId, Archetype({}, BooleanArray(ComponentCount)))
  /\ registryOrder = << RootId >>
  /\ visitedArchetypeEntities = {}
  /\ generator = NoGenerator
  /\ entityArchetypes = [e \in Entities |-> Undefined]
  /\ queryArchetypes = EmptyMap
  /\ idsByQuery = [q \in QueryObjects |-> Undefined]
  /\ instancesByID = EmptyMap
  /\ lastQueryVersion = EmptyMap
  /\ version = 0
  /\ componentCache = EmptyMap
  /\ entityCache = EmptyMap
  /\ arrays = << >>
  /\ free = << >>
  /\ systems = << >>
  /\ calls = [k \in Calls |-> Idle]
  /\ lastOp = NoOp
  /\ probe = NoProbe

\* ----------------------------------------------------------------- actions
\* world.entities.create()
CreateEntity ==
  \E acquired \in BitPool_acquire(pool) :
    /\ Becomes([World EXCEPT !.pool = IF acquired = -1 THEN @ ELSE @ \cup {acquired}])
    /\ lastOp' = Op("create", "ok", EntityManager_create(acquired))
    /\ UNCHANGED << calls, probe >>

\* world.entities.destroy(entity)
DestroyEntity(entity) ==
  LET after == destroyEntity(World, entity)
  IN  /\ Becomes(after)
      /\ lastOp' = Op("destroyEntity", Outcome(after), NoEntity)
      /\ UNCHANGED << calls, probe >>

\* world.components.addToEntity(component, entity)
AddToEntity(component, entity) ==
  LET after == addComponentToEntity(World, component, entity)
  IN  /\ Becomes(after)
      /\ lastOp' = Op("addToEntity", Outcome(after), NoEntity)
      /\ UNCHANGED << calls, probe >>

\* world.components.removeFromEntity(component, entity)
RemoveFromEntity(component, entity) ==
  LET after == removeComponentFromEntity(World, component, entity)
  IN  /\ Becomes(after)
      /\ lastOp' = Op("removeFromEntity", Outcome(after), NoEntity)
      /\ UNCHANGED << calls, probe >>

\* Entity numbers on either side of [0, capacity).
OutOfRange == {-1, Capacity}

\* The ids an Archetype object can carry, one for every set of components.
ArchetypeIds ==
  { BooleanArray_toString(BooleanArray_fromBits(ComponentCount, components)) :
      components \in SUBSET Components }

\* ArchetypeManager.update(entity, components) called on the manager of an
\* initialized world with an entity outside the range. What a bitset does
\* with an index outside its size is not defined: it stores it or throws.
ArchetypeManagerUpdate(entity, components) ==
  /\ state = "initialized"
  /\ \E after \in { ArchetypeManager_update(World, entity, components),
                     ArchetypeManager_update_rejecting(World, entity, components) } :
       /\ Becomes(after)
       /\ lastOp' = Op("update", Outcome(after), NoEntity)
  /\ UNCHANGED << calls, probe >>

\* ArchetypeManager.set(archetype, entity) called on the manager of an
\* initialized world with an Archetype object the manager did not make.
ArchetypeManagerSet(archetypeId, entity) ==
  LET after == ArchetypeManager_set(World, archetypeId, entity)
  IN  /\ state = "initialized"
      /\ archetypeId \notin DOMAIN registry
      /\ Becomes(after)
      /\ lastOp' = Op("set", Outcome(after), NoEntity)
      /\ UNCHANGED << calls, probe >>

\* world.refresh(retainChanged): a failed state assertion is thrown before the
\* try block; an error inside it moves the world to "error".
Refresh(retainChanged) ==
  LET after == World_refresh(World, retainChanged)
      asserted == assertWorldState("initialized", state)
  IN  /\ Becomes(IF asserted # "" THEN World
                 ELSE IF after.err # "" THEN [after EXCEPT !.state = "error"]
                 ELSE after)
      /\ lastOp' = Op("refresh", IF asserted # "" THEN asserted ELSE Outcome(after), NoEntity)
      /\ UNCHANGED << calls, probe >>

\* world.entities.query(query), the iterator consumed
EntitiesQuery(q) ==
  /\ Becomes(getEntitiesFromQuery(World, q))
  /\ UNCHANGED << calls, lastOp, probe >>

\* world.components.query(query) and world.archetypes.queryComponents(query)
ComponentsQuery(q) ==
  /\ Becomes(getComponentsFromQuery(World, q))
  /\ UNCHANGED << calls, lastOp, probe >>

\* queryManager.invalidate(query)
Invalidate(q) ==
  /\ Becomes(QueryManager_invalidateQuery(World, q))
  /\ lastOp' = Op("invalidate", "ok", NoEntity)
  /\ UNCHANGED << calls, probe >>

\* queryManager.cache.clear()
CacheClear ==
  /\ Becomes(QueryCache_clear(World))
  /\ lastOp' = Op("clear", "ok", NoEntity)
  /\ UNCHANGED << calls, probe >>

\* queryManager.invalidate()
InvalidateAll ==
  /\ Becomes(QueryManager_invalidate(World))
  /\ lastOp' = Op("invalidateAll", "ok", NoEntity)
  /\ UNCHANGED << calls, probe >>

\* world.archetypes.queryEntities(query), the iterator consumed
QueryEntities(q) ==
  /\ Becomes(queryConsumed(World, q))
  /\ UNCHANGED << calls, lastOp, probe >>

\* world.archetypes.queryEntered(query), the iterator consumed
QueryEntered(q) ==
  /\ Becomes(queryConsumed(World, q))
  /\ UNCHANGED << calls, lastOp, probe >>

\* world.archetypes.queryExited(query), the iterator consumed
QueryExited(q) ==
  /\ Becomes(queryConsumed(World, q))
  /\ UNCHANGED << calls, lastOp, probe >>

\* const it = world.archetypes.queryEntities(query) (or queryEntered,
\* queryExited): a generator object, its body not yet entered.
GeneratorCall(kind, q) ==
  /\ generator.pc = "idle"
  /\ Becomes([World EXCEPT !.generator =
               [NoGenerator EXCEPT !.pc = "start", !.kind = kind, !.q = q]])
  /\ UNCHANGED << calls, lastOp, probe >>

\* it.next(): one step of a for...of loop over the generator
GeneratorNext ==
  /\ generator.pc \in {"start", "suspended"}
  /\ Becomes(Generator_next(World))
  /\ UNCHANGED << calls, lastOp, probe >>

\* A second iterator over world.archetypes.queryEntities(query) (or
\* queryEntered, queryExited) started between two steps of the first,
\* stepped `steps` times and abandoned.
AbandonedEnumeration(kind, q, steps) ==
  /\ generator.pc = "suspended"
  /\ Becomes(Generator_abandoned(World, kind, q, steps))
  /\ UNCHANGED << calls, lastOp, probe >>

\* world.systems.create(system)
SystemsCreate(system) ==
  LET after == SystemManager_create(World, system)
  IN  /\ Becomes(after)
      /\ lastOp' = Op("systems.create", Outcome(after), NoEntity)
      /\ UNCHANGED << calls, probe >>

\* The values user code writes to field F: two a Uint8Array element holds,
\* and one it does not.
WriteValues == {0, 1, 256}

\* instance.proxy.entity = value
ProxySetEntity(component, value) ==
  LET after == StorageProxy_setEntity(World, component, value)
  IN  /\ Becomes(after)
      /\ lastOp' = Op("proxy.entity", Outcome(after), NoEntity)
      /\ UNCHANGED << calls, probe >>

\* instance.proxy.F = value
ProxyWrite(component, value) ==
  /\ Becomes(StorageProxy_setField(World, component, value))
  /\ lastOp' = Op("proxy.F", "ok", NoEntity)
  /\ UNCHANGED << calls, probe >>

\* world.components.setEntityData(component, entity, {F: value})
SetEntityData(component, entity, value) ==
  /\ Becomes(ComponentManager_setEntityData(World, component, entity, value))
  /\ lastOp' = Op("setEntityData", "ok", NoEntity)
  /\ UNCHANGED << calls, probe >>

\* instance.storage.partitions.F[entity] = value
WriteView(component, entity, value) ==
  /\ Becomes(DirectWrite(World, component, entity, value))
  /\ lastOp' = Op("partitions.F", "ok", NoEntity)
  /\ UNCHANGED << calls, probe >>

\* --------------------------------------------------- init() and destroy()
\* An async call runs to its first await inside the caller's turn and is
\* resumed in a later turn; other calls may run in between.  A call k is
\* [kind, pc, rest]: rest is what is left of the Object.values(registry)
\* snapshot the SystemManager iterates, its head the system being awaited.
Settle(promise, value) == IF promise = "pending" THEN value ELSE promise

\* World.init() up to `await this.#systemManager.init(this)`: the state
\* assertion, ArchetypeManager.init(), and the first system's init hook.
InitCall(k) ==
  LET asserted == assertWorldState("uninitialized", state)
  IN  /\ calls[k].kind = "idle"
      /\ IF asserted # ""
           THEN /\ Becomes(World)
                /\ calls' = calls
                /\ lastOp' = Op("init", asserted, NoEntity)
           ELSE /\ Becomes(ArchetypeManager_init(World))
                /\ calls' = [calls EXCEPT ![k] =
                               [ kind |-> "init",
                                 pc |-> IF systems = << >> THEN "resume" ELSE "hook",
                                 rest |-> systems ]]
                /\ lastOp' = Op("init", "pending", NoEntity)
      /\ probe' = probe

\* The awaited init hook fulfils (the loop goes on to the next system) or
\* rejects (World.init's catch: state "error", the error re-thrown).
InitHookSettled(k, fulfilled) ==
  /\ calls[k].kind = "init"
  /\ calls[k].pc = "hook"
  /\ IF fulfilled
       THEN /\ Becomes(World)
            /\ calls' = [calls EXCEPT ![k].rest = Tail(@),
                                      ![k].pc = IF Tail(calls[k].rest) = << >>
                                                  THEN "resume" ELSE "hook"]
            /\ UNCHANGED lastOp
       ELSE /\ Becomes([World EXCEPT !.state = "error",
                                     !.initPromise = Settle(@, "error")])
            /\ calls' = [calls EXCEPT ![k] = Idle]
            /\ lastOp' = Op("init", "HookError", NoEntity)
  /\ probe' = probe

\* World.init() after the await: state "initialized", the init promise
\* resolved, one refresh, the closing state assertion.
InitResume(k) ==
  LET ready == [World EXCEPT !.state = "initialized",
                             !.initPromise = Settle(@, "initialized")]
      refreshed == World_refresh(ready, FALSE)
      asserted == IF refreshed.err # "" THEN refreshed.err
                  ELSE assertWorldState("initialized", refreshed.state)
  IN  /\ calls[k].kind = "init"
      /\ calls[k].pc = "resume"
      /\ Becomes(IF asserted # ""
                   THEN [refreshed EXCEPT !.state = "error",
                                          !.initPromise = Settle(@, "error")]
                   ELSE refreshed)
      /\ calls' = [calls EXCEPT ![k] = Idle]
      /\ lastOp' = Op("init", IF asserted # "" THEN asserted ELSE "ok", NoEntity)
      /\ probe' = probe

\* World.destroy() up to `await this.#systemManager.destroyAll()`: the state
\* assertion, and SystemManager.destroy of the first system up to its hook.
DestroyCall(k) ==
  LET asserted == assertWorldState("initialized", state)
  IN  /\ calls[k].kind = "idle"
      /\ Becomes(World)
      /\ IF asserted # ""
           THEN /\ calls' = calls
                /\ lastOp' = Op("destroy", asserted, NoEntity)
           ELSE /\ calls' = [calls EXCEPT ![k] =
                               [ kind |-> "destroy",
                                 pc |-> IF systems = << >> THEN "resume" ELSE "hook",
                                 rest |-> systems ]]
                /\ lastOp' = Op("destroy", "pending", NoEntity)
      /\ probe' = probe

\* The awaited destroy hook fulfils (SystemManager.destroy deletes the system
\* from the registry) or rejects (World.destroy's catch).
DestroyHookSettled(k, fulfilled) ==
  /\ calls[k].kind = "destroy"
  /\ calls[k].pc = "hook"
  /\ IF fulfilled
       THEN /\ Becomes([World EXCEPT !.systems =
                          SystemManager_delete(@, Head(calls[k].rest))])
            /\ calls' = [calls EXCEPT ![k].rest = Tail(@),
                                      ![k].pc = IF Tail(calls[k].rest) = << >>
                                                  THEN "resume" ELSE "next"]
            /\ UNCHANGED lastOp
       ELSE /\ Becomes([World EXCEPT !.state = "error"])
            /\ calls' = [calls EXCEPT ![k] = Idle]
            /\ lastOp' = Op("destroy", "HookError", NoEntity)
  /\ probe' = probe

\* destroyAll's next iteration: SystemManager.destroy(name) throws
\* NotRegisteredError when the system is gone, else calls its destroy hook.
DestroyNext(k) ==
  /\ calls[k].kind = "destroy"
  /\ calls[k].pc = "next"
  /\ IF SystemManager_has(systems, Head(calls[k].rest))
       THEN /\ Becomes(World)
            /\ calls' = [calls EXCEPT ![k].pc = "hook"]
            /\ UNCHANGED lastOp
       ELSE /\ Becomes([World EXCEPT !.state = "error"])
            /\ calls' = [calls EXCEPT ![k] = Idle]
            /\ lastOp' = Op("destroy", "NotRegisteredError", NoEntity)
  /\ probe' = probe

\* World.destroy() after the await: state "destroyed".
DestroyResume(k) ==
  /\ calls[k].kind = "destroy"
  /\ calls[k].pc = "resume"
  /\ Becomes([World EXCEPT !.state = "destroyed"])
  /\ calls' = [calls EXCEPT ![k] = Idle]
  /\ lastOp' = Op("destroy", "ok", NoEntity)
  /\ probe' = probe

\* world.onReady() after its `await this.#initPromise`: the promise has
\* settled to the state init() resolved it with.
OnReady ==
  /\ initPromise # "pending"
  /\ Becomes(World)
  /\ lastOp' = Op("onReady",
                  IF initPromise # "initialized" THEN "WorldStateError" ELSE "ok",
                  NoEntity)
  /\ UNCHANGED << calls, probe >>

\* ------------------------------------------------------ isQueryMatch alone
\* The component ids the matched masks are drawn from: the first bit, the
\* sign bit of the first word, and the last bit of the mask.
ProbeBits == {0, 31, ProbeSize - 1}

\* A Query's all/any/none lists are pairwise disjoint (isValidQuerySpec).
ProbeQueries ==
  { spec \in [all : SUBSET ProbeBits, any : SUBSET ProbeBits, none : SUBSET ProbeBits] :
      /\ spec.all \cap spec.any = {}
      /\ spec.all \cap spec.none = {}
      /\ spec.any \cap spec.none = {} }

\* The masks createQueryInstance compiles from a Query in a world of
\* ProbeSize components, next to the mask of an archetype.
Probes ==
  { [ target |-> target, and |-> spec.all, or |-> spec.any, not |-> spec.none,
      pc |-> "call", result |-> FALSE ] :
      target \in SUBSET ProbeBits, spec \in ProbeQueries }

ProbeTarget == BooleanArray_fromBits(ProbeSize, probe.target)

ProbeQuery ==
  [ and |-> BooleanArray_fromBits(ProbeSize, probe.and),
    or  |-> BooleanArray_fromBits(ProbeSize, probe.or),
    not |-> BooleanArray_fromBits(ProbeSize, probe.not) ]

\* isQueryMatch(target, query) is called and returns.
Match ==
  /\ probe.pc = "call"
  /\ probe' = [probe EXCEPT !.pc = "done",
                            !.result = isQueryMatch(ProbeTarget, ProbeQuery)]
  /\ UNCHANGED << worldVars, calls, lastOp >>

\* ------------------------------------------------------ new Query(spec) alone
\* The longest array of a QuerySpec key.
MaxArray == 2

QueryArrays ==
  {NoArray} \cup
  { SomeArray(items) :
      items \in UNION { [1 .. n -> Components \cup {UnregisteredDescriptor}] :
                          n \in 0 .. MaxArray } }

QuerySpecs == [all : QueryArrays, any : QueryArrays, none : QueryArrays]

\* No Query constructed yet.
NoQuery == [err |-> "", all |-> << >>, any |-> << >>, none |-> << >>]

\* new Query(probe.spec) is called and returns or throws.
NewQuery ==
  /\ probe.pc = "call"
  /\ probe' = [probe EXCEPT !.pc = "done", !.query = Query(probe.spec)]
  /\ UNCHANGED << worldVars, calls, lastOp >>

\* queryManager.register(query) of the Query just constructed, up to the
\* instance createQueryInstance returns for it.
CompileQuery ==
  LET set(array) == { array[i] : i \in DOMAIN array }
      query == [ all |-> set(probe.query.all),
                 any |-> set(probe.query.any),
                 none |-> set(probe.query.none) ]
  IN  /\ probe.pc = "done"
      /\ probe.query.err = ""
      /\ probe' = [probe EXCEPT !.pc = "compiled",
                                !.instance = << createQueryInstance(query, "qProbe") >>]
      /\ UNCHANGED << worldVars, calls, lastOp >>

\* ---------------------------------------------------------- specifications
\* A client that initializes a world without systems and then uses it.
Next ==
  \/ InitCall(1)
  \/ InitResume(1)
  \/ CreateEntity
  \/ /\ state = "initialized"
     /\ \/ \E e \in Entities : DestroyEntity(e)
        \/ \E c \in Components, e \in Entities : AddToEntity(c, e)
        \/ \E c \in Components, e \in Entities : RemoveFromEntity(c, e)
        \/ Refresh(FALSE)
        \/ \E q \in QueryObjects : EntitiesQuery(q)
        \/ \E q \in QueryObjects : ComponentsQuery(q)
        \/ \E q \in QueryObjects : QueryEntities(q)
        \/ \E q \in QueryObjects : QueryEntered(q)
        \/ \E q \in QueryObjects : QueryExited(q)

Spec == Init /\ [][Next]_vars

\* A client that populates the world before it initializes it.
SetupNext ==
  \/ InitCall(1)
  \/ InitResume(1)
  \/ CreateEntity
  \/ \E e \in Entities : DestroyEntity(e)
  \/ \E c \in Components, e \in Entities : AddToEntity(c, e)

SetupSpec == Init /\ [][SetupNext]_vars

\* Clients that call init(), destroy() and refresh() at any time, on a world
\* whose systems' hooks fulfil or reject.
LifecycleNext ==
  \/ \E system \in Systems : SystemsCreate(system)
  \/ \E k \in Calls : InitCall(k)
  \/ \E k \in Calls, fulfilled \in BOOLEAN : InitHookSettled(k, fulfilled)
  \/ \E k \in Calls : InitResume(k)
  \/ \E k \in Calls : DestroyCall(k)
  \/ \E k \in Calls, fulfilled \in BOOLEAN : DestroyHookSettled(k, fulfilled)
  \/ \E k \in Calls : DestroyNext(k)
  \/ \E k \in Calls : DestroyResume(k)
  \/ \E retainChanged \in BOOLEAN : Refresh(retainChanged)

LifecycleSpec == Init /\ [][LifecycleNext]_vars

\* A client that writes component data and watches the changed tracking.
StorageNext ==
  \/ InitCall(1)
  \/ InitResume(1)
  \/ /\ state = "initialized"
     /\ \/ \E c \in Components, e \in Entities : AddToEntity(c, e)
        \/ \E c \in Components, e \in Entities : RemoveFromEntity(c, e)
        \/ \E retainChanged \in BOOLEAN : Refresh(retainChanged)
        \/ \E q \in QueryObjects : QueryEntities(q)
        \/ \E value \in Entities \cup {Capacity} : ProxySetEntity(0, value)
        \/ \E value \in WriteValues : ProxyWrite(0, value)
        \/ \E e \in Entities, value \in WriteValues : SetEntityData(0, e, value)
        \/ \E e \in Entities, value \in WriteValues : WriteView(0, e, value)

StorageSpec == Init /\ [][StorageNext]_vars

\* A client that populates a world without systems, initializes it, destroys
\* it and awaits onReady().
TeardownNext ==
  \/ InitCall(1)
  \/ InitResume(1)
  \/ CreateEntity
  \/ \E c \in Components, e \in pool : AddToEntity(c, e)
  \/ DestroyCall(1)
  \/ DestroyResume(1)
  \/ OnReady

TeardownSpec == Init /\ [][TeardownNext]_vars

\* A client that loops over a generator and, in the loop's body, adds
\* components and runs another enumeration.
GeneratorKinds == {"queryEntities", "queryEntered", "queryExited"}

EnumerationNext ==
  \/ InitCall(1)
  \/ InitResume(1)
  \/ CreateEntity
  \/ \E c \in Components, e \in pool : AddToEntity(c, e)
  \/ QueryEntered("qAll")
  \/ \E kind \in GeneratorKinds : GeneratorCall(kind, "qAll")
  \/ GeneratorNext
  \/ \E steps \in 1 .. Capacity : AbandonedEnumeration("queryEntities", "qAll", steps)

EnumerationSpec == Init /\ [][EnumerationNext]_vars

\* A client that populates entity 0 before and after init() and refreshes.
ArchetypeNext ==
  \/ InitCall(1)
  \/ InitResume(1)
  \/ CreateEntity
  \/ \E e \in Entities : DestroyEntity(e)
  \/ \E c \in Components : AddToEntity(c, 0)
  \/ \E c \in Components : RemoveFromEntity(c, 0)
  \/ \E retainChanged \in BOOLEAN : Refresh(retainChanged)
  \/ QueryEntities("qAll")

ArchetypeSpec == Init /\ [][ArchetypeNext]_vars

\* isQueryMatch on every mask and compiled query of the sample.
MatchInit ==
  /\ state = "uninitialized"
  /\ initPromise = "pending"
  /\ pool = {}
  /\ owners = [c \in Components |-> {}]
  /\ changed = [c \in Components |-> {}]
  /\ storage = [c \in Components |-> [e \in Entities |-> 0]]
  /\ cursor = [c \in Components |-> 0]
  /\ registry = MapSet(EmptyMap, RootId, Archetype({}, BooleanArray(ComponentCount)))
  /\ registryOrder = << RootId >>
  /\ visitedArchetypeEntities = {}
  /\ generator = NoGenerator
  /\ entityArchetypes = [e \in Entities |-> Undefined]
  /\ queryArchetypes = EmptyMap
  /\ idsByQuery = [q \in QueryObjects |-> Undefined]
  /\ instancesByID = EmptyMap
  /\ lastQueryVersion = EmptyMap
  /\ version = 0
  /\ componentCache = EmptyMap
  /\ entityCache = EmptyMap
  /\ arrays = << >>
  /\ free = << >>
  /\ systems = << >>
  /\ calls = [k \in Calls |-> Idle]
  /\ lastOp = NoOp
  /\ probe \in Probes

MatchNext == Match

MatchSpec == MatchInit /\ [][MatchNext]_vars

\* Queries answered and invalidated on an initialized world.
CacheNext ==
  \/ InitCall(1)
  \/ InitResume(1)
  \/ CreateEntity
  \/ /\ state = "initialized"
     /\ \/ \E c \in Components : AddToEntity(c, 0)
        \/ \E q \in QueryObjects : EntitiesQuery(q)
        \/ \E q \in QueryObjects : Invalidate(q)
        \/ InvalidateAll
        \/ CacheClear

CacheSpec == Init /\ [][CacheNext]_vars

\* A client that passes components the world does not know and entities
\* outside its range, before and after init.
MisuseNext ==
  \/ InitCall(1)
  \/ InitResume(1)
  \/ CreateEntity
  \/ \E c \in Components : AddToEntity(c, 0)
  \/ \E c \in {UnregisteredDescriptor, UnregisteredName}, e \in Entities :
       \/ AddToEntity(c, e)
       \/ RemoveFromEntity(c, e)
  \/ \E e \in OutOfRange : DestroyEntity(e)

MisuseSpec == Init /\ [][MisuseNext]_vars

\* A client that calls the ArchetypeManager of an initialized world itself.
ManagerNext ==
  \/ InitCall(1)
  \/ InitResume(1)
  \/ \E e \in OutOfRange, components \in SUBSET Components :
       ArchetypeManagerUpdate(e, components)
  \/ \E id \in ArchetypeIds, e \in Entities \cup OutOfRange :
       ArchetypeManagerSet(id, e)

ManagerSpec == Init /\ [][ManagerNext]_vars

\* new Query(spec) on every QuerySpec of the sample.
ConstructInit ==
  /\ state = "uninitialized"
  /\ initPromise = "pending"
  /\ pool = {}
  /\ owners = [c \in Components |-> {}]
  /\ changed = [c \in Components |-> {}]
  /\ storage = [c \in Components |-> [e \in Entities |-> 0]]
  /\ cursor = [c \in Components |-> 0]
  /\ registry = MapSet(EmptyMap, RootId, Archetype({}, BooleanArray(ComponentCount)))
  /\ registryOrder = << RootId >>
  /\ visitedArchetypeEntities = {}
  /\ generator = NoGenerator
  /\ entityArchetypes = [e \in Entities |-> Undefined]
  /\ queryArchetypes = EmptyMap
  /\ idsByQuery = [q \in QueryObjects |-> Undefined]
  /\ instancesByID = EmptyMap
  /\ lastQueryVersion = EmptyMap
  /\ version = 0
  /\ componentCache = EmptyMap
  /\ entityCache = EmptyMap
  /\ arrays = << >>
  /\ free = << >>
  /\ systems = << >>
  /\ calls = [k \in Calls |-> Idle]
  /\ lastOp = NoOp
  /\ probe \in { [spec |-> spec, pc |-> "call", query |-> NoQuery, instance |-> << >>] :
                    spec \in QuerySpecs }

ConstructNext ==
  \/ NewQuery
  \/ CompileQuery

ConstructSpec == ConstructInit /\ [][ConstructNext]_vars

\* ---------------------------------------------------------------- properties
\* (t & q.and) = q.and, (t & q.not) = 0 and (q.or = 0 or (t & q.or) # 0), over
\* the whole masks.
MatchFormula ==
  /\ probe.and \subseteq probe.target
  /\ probe.not \cap probe.target = {}
  /\ (probe.or = {} \/ probe.or \cap probe.target # {})

\* C2: for every target mask t and compiled query q, isQueryMatch(t, q) is
\* true if and only if (t & q.and) = q.and and (t & q.not) = 0 and (q.or = 0
\* or (t & q.or) # 0), over all mask words.  Stated here for the masks with
\* at least one bit set: on t = 0 isQueryMatch returns false before it looks
\* at the query.
C2_MatchIffFormula ==
  (probe.pc = "done" /\ probe.target # {}) => (probe.result <=> MatchFormula)

\* The entities whose owned component set is non-empty and satisfies the
\* Query q: every `all`, no `none`, one `any` when `any` is non-empty.
Satisfying(q) ==
  { e \in Entities :
      LET owned == getEntityComponentsDirect(World, e)
      IN  /\ owned # {}
          /\ Queries[q].all \subseteq owned
          /\ Queries[q].none \cap owned = {}
          /\ (Queries[q].any = {} \/ Queries[q].any \cap owned # {}) }

\* C1: in an initialized world, after any sequence of create, destroy,
\* addToEntity, removeFromEntity, refresh, components.query and
\* entities.query calls, entities.query(q) yields exactly the entities whose
\* owned component set is non-empty and satisfies q.
C1_EntitiesQueryExact ==
  state = "initialized" =>
    \A q \in QueryObjects : entitiesResult(World, q) = Satisfying(q)

\* C3: an entity that owns no components is never yielded by entities.query
\* or archetypes.queryEntities, whatever the query's all/any/none sets are.
C3_EmptyNeverYielded ==
  \A q \in QueryObjects, e \in Entities :
    getEntityComponentsDirect(World, e) = {} =>
      /\ e \notin entitiesResult(World, q)
      /\ e \notin queryArchetypeEntities(World, q)

\* The states World moves between: uninitialized -> initialized -> destroyed,
\* each step possibly diverting to error.
Transition(from, to) ==
  \/ from = "uninitialized" /\ to \in {"initialized", "error"}
  \/ from = "initialized" /\ to \in {"destroyed", "error"}

\* C4: the state of a World only moves uninitialized -> initialized ->
\* destroyed, each step possibly diverting to error, and destroyed and error
\* are never left, under every interleaving of init(), destroy() and
\* refresh() calls.
C4_StrictTransitions ==
  [][state' # state => Transition(state, state')]_vars

\* C5: in an initialized world, after components.addToEntity(A, e) moves e
\* into a new archetype, archetypes.queryEntered({all:[A]}) yields e (here:
\* called right after the add, before any refresh by the user).
C5_EnteredAfterAdd ==
  [][\A e \in Entities :
       ( /\ state = "initialized"
         /\ AddToEntity(0, e)
         /\ entityArchetypes'[e] # entityArchetypes[e] )
       => e \in queryEnteredEntities(World', "qAll")]_vars

\* C6: after entities.destroy(e) of an entity owning component A,
\* archetypes.queryExited({all:[A]}) yields e (here: called right after the
\* destroy), whether or not the query object was registered before.
C6_ExitedAfterDestroy ==
  [][\A e \in Entities :
       ( /\ 0 \in getEntityComponentsDirect(World, e)
         /\ DestroyEntity(e)
         /\ lastOp'.outcome = "ok" )
       => e \in queryExitedEntities(World', "qAll")]_vars

\* C7: after entities.destroy(e), whatever preceded it, e is not active, its
\* owner bit and changed bit are 0 in every registered component, and its
\* archetype is the root archetype.
C7_DestroyPostconditions ==
  [][\A e \in Entities :
       (e \in pool /\ DestroyEntity(e) /\ lastOp'.outcome = "ok")
       => /\ e \notin pool'
          /\ \A c \in Components : e \notin owners'[c] /\ e \notin changed'[c]
          /\ entityArchetypes'[e] = RootId]_vars

\* C8: when a system init hook or destroy hook raises, the world state
\* becomes error and the error is re-raised; from then on every call to
\* init(), destroy() and refresh() raises WorldStateError and the state stays
\* error.
C8_ErrorIsFinal ==
  [][ /\ \A k \in Calls :
           (InitHookSettled(k, FALSE) \/ DestroyHookSettled(k, FALSE))
           => state' = "error" /\ lastOp'.outcome = "HookError"
      /\ state = "error" =>
           /\ state' = "error"
           /\ \A k \in Calls : InitCall(k) \/ DestroyCall(k)
                => lastOp'.outcome = "WorldStateError"
           /\ \A retainChanged \in BOOLEAN : Refresh(retainChanged)
                => lastOp'.outcome = "WorldStateError" ]_vars

\* C9: init() called in any state other than uninitialized, and destroy() or
\* refresh() called in any state other than initialized, raise
\* WorldStateError and leave the world state and all archetype, component
\* and query-cache state unchanged.
C9_FailedAssertionChangesNothing ==
  [][ /\ \A k \in Calls :
           (state # "uninitialized" /\ InitCall(k))
           => /\ lastOp' = Op("init", "WorldStateError", NoEntity)
              /\ UNCHANGED << worldVars, calls >>
      /\ \A k \in Calls :
           (state # "initialized" /\ DestroyCall(k))
           => /\ lastOp' = Op("destroy", "WorldStateError", NoEntity)
              /\ UNCHANGED << worldVars, calls >>
      /\ \A retainChanged \in BOOLEAN :
           (state # "initialized" /\ Refresh(retainChanged))
           => /\ lastOp' = Op("refresh", "WorldStateError", NoEntity)
              /\ UNCHANGED << worldVars, calls >> ]_vars

\* init() has thrown WorldStateError on a world that is initialized, has a
\* system and has been refreshed since.
C9_Witness ==
  /\ lastOp = Op("init", "WorldStateError", NoEntity)
  /\ state = "initialized"
  /\ systems # << >>
  /\ version > 1

\* C10: entities.create() returns an id in [0, capacity) that was not active
\* before the call; when capacity entities are active it returns undefined,
\* raises no error and changes no state; getActiveCount() +
\* getAvailableCount() = capacity in every reachable state; after destroying
\* an active entity, create() succeeds again.
C10_CreateWithinCapacity ==
  /\ [](getActiveCount(World) + getAvailableCount(World) = Capacity)
  /\ [][ /\ CreateEntity =>
              /\ lastOp'.op = "create"
              /\ lastOp'.outcome = "ok"
              /\ IF getActiveCount(World) = Capacity
                   THEN lastOp'.ret = NoEntity /\ UNCHANGED worldVars
                   ELSE /\ lastOp'.ret.defined
                        /\ isEntity(lastOp'.ret.value)
                        /\ lastOp'.ret.value \notin pool
                        /\ pool' = pool \cup {lastOp'.ret.value}
         /\ \A e \in Entities :
              (e \in pool /\ DestroyEntity(e) /\ lastOp'.outcome = "ok")
              => \A acquired \in BitPool_acquire(pool') :
                   EntityManager_create(acquired).defined ]_vars

\* create() has returned undefined on a world whose every id is active.
C10_Witness ==
  /\ lastOp = Op("create", "ok", NoEntity)
  /\ getAvailableCount(World) = 0

\* C11: a write proxy.F = v with the proxy cursor at entity e stores v in
\* F[e] and sets the component's changed bit for e if and only if the
\* previously stored value differed from v; when the stored value already
\* equals v the changed bit of e is left as it was.
C11_ProxyWriteTracksChange ==
  [][\A v \in WriteValues :
       ProxyWrite(0, v) =>
         LET e == cursor[0]
         IN  /\ storage'[0][e] = v
             /\ changed'[0] = IF storage[0][e] # v
                                THEN changed[0] \cup {e}
                                ELSE changed[0]]_vars

\* C12: immediately after world.refresh() with retainChanged = false,
\* components.getChanged yields nothing for every registered component.
C12_RefreshClearsChanged ==
  [][(Refresh(FALSE) /\ lastOp'.outcome = "ok")
       => \A c \in Components : getChanged(World', c) = {}]_vars

\* refresh has returned on a world in which an entity owns a component (its
\* add set the changed bit) and a proxy write has stored a new value, and no
\* changed bit is set.
C12_Witness ==
  /\ lastOp = Op("refresh", "ok", NoEntity)
  /\ \E c \in Components : owners[c] # {}
  /\ \E e \in Entities : storage[0][e] = 1
  /\ \A c \in Components : changed[c] = {}

\* C13: refresh(true), and the automatic refreshes triggered by addToEntity,
\* removeFromEntity and the first registration of a query in an initialized
\* world, leave the changed bit of every (component, entity) pair unchanged,
\* except the pair directly added (bit set) or removed (bit cleared).
C13_RetainChangedFrame ==
  [][ state = "initialized" =>
        /\ (lastOp'.op = "refresh" /\ Refresh(TRUE)) => changed' = changed
        /\ \A q \in QueryObjects :
             (lastOp' = lastOp /\ QueryEntities(q)) => changed' = changed
        /\ \A c \in Components, e \in Entities :
             (lastOp' = Op("addToEntity", "ok", NoEntity) /\ AddToEntity(c, e))
             => changed' = [changed EXCEPT ![c] = @ \cup {e}]
        /\ \A c \in Components, e \in Entities :
             (lastOp' = Op("removeFromEntity", "ok", NoEntity)
                /\ RemoveFromEntity(c, e))
             => changed' = [changed EXCEPT ![c] = @ \ {e}] ]_vars

\* addToEntity has returned on an initialized world in which the changed
\* bits of two components are set.
C13_Witness ==
  /\ lastOp = Op("addToEntity", "ok", NoEntity)
  /\ state = "initialized"
  /\ \A c \in Components : changed[c] # {}

\* C14: components.setEntityData(component, e, value) makes e appear in the
\* component's changed tracking (here: when it alters the stored value).
C14_SetEntityDataTracksChange ==
  [][\A e \in Entities, v \in WriteValues :
       (SetEntityData(0, e, v) /\ storage[0][e] # TypedArray_store(v))
       => e \in getChanged(World', 0)]_vars

\* C15: in every reachable state, every active entity e has an archetype in
\* the entity-to-archetype map, that archetype's member set contains e, and
\* no other archetype's member set contains e.
C15_ActiveEntityInOneArchetype ==
  \A e \in pool :
    /\ entityArchetypes[e] # Undefined
    /\ \A a \in DOMAIN registry :
         e \in registry[a].entities <=> a = entityArchetypes[e]

\* C16: after every completed public operation, every member e of every
\* archetype a has the owner bit of every component in a.components set.
C16_MembersOwnComponents ==
  \A a \in DOMAIN registry :
    \A e \in registry[a].entities :
      \A c \in registry[a].components : e \in owners[c]

\* An operation has returned with entity 0 a member of an archetype with
\* components, after it left another archetype with components.
C16_Witness ==
  /\ lastOp.outcome = "ok"
  /\ \E a, b \in DOMAIN registry :
       /\ a # b
       /\ registry[a].components # {}
       /\ registry[b].components # {}
       /\ 0 \in registry[a].entities
       /\ 0 \in registry[b].exited

\* C17: immediately after every refresh (world.refresh, the one init() runs,
\* and the automatic ones of addToEntity and removeFromEntity on an
\* initialized world) every archetype in the registry has empty entered and
\* exited sets, whether or not a query is registered or matches it.
C17_RefreshClearsEnteredExited ==
  [][ ( \/ lastOp' = Op("refresh", "ok", NoEntity)
        \/ lastOp' = Op("init", "ok", NoEntity)
        \/ /\ state = "initialized"
           /\ lastOp' \in { Op("addToEntity", "ok", NoEntity),
                            Op("removeFromEntity", "ok", NoEntity) } )
      => \A a \in DOMAIN registry' :
           /\ registry'[a].entered = {}
           /\ registry'[a].exited = {} ]_vars

\* refresh has returned with no query registered on a world in which entity 0
\* is not active and whose registry holds an archetype with components.
C17_Witness ==
  /\ lastOp = Op("refresh", "ok", NoEntity)
  /\ instancesByID = EmptyMap
  /\ 0 \notin pool
  /\ \E a \in DOMAIN registry : a # RootId /\ registry[a].components # {}

\* C18: for an entity e and a component A, add A, remove A, add A with no
\* refresh in between leaves e in the entered set and not in the exited set
\* of the archetype e ends in, and in A's changed set.
C18_AddRemoveAdd ==
  \A e \in pool, A \in Components :
    e \notin owners[A] =>
      LET added == addComponentToEntity(World, A, e)
          removed == removeComponentFromEntity(added, A, e)
          again == addComponentToEntity(removed, A, e)
          archetype == again.registry[again.entityArchetypes[e]]
      IN  /\ e \in archetype.entered
          /\ e \notin archetype.exited
          /\ e \in getChanged(again, A)

\* C19: for an entity e and a component A that e does not own,
\* addToEntity(A, e) followed by removeFromEntity(A, e) leaves A's owner bit
\* of e clear and, after a refresh, e in the archetype it was in before.
C19_AddRemoveRestores ==
  \A e \in pool, A \in Components :
    (state = "initialized" /\ e \notin owners[A]) =>
      LET added == addComponentToEntity(World, A, e)
          removed == removeComponentFromEntity(added, A, e)
          refreshed == World_refresh(removed, FALSE)
      IN  /\ e \notin refreshed.owners[A]
          /\ refreshed.entityArchetypes[e] = entityArchetypes[e]

\* C20: every enumeration by archetypes.queryEntities, queryEntered and
\* queryExited yields each entity at most once.
C20_YieldedAtMostOnce ==
  \A i, j \in DOMAIN generator.yielded :
    i # j => generator.yielded[i] # generator.yielded[j]

\* C21: after world.destroy() completes, no entity is active and no entity
\* owns any component.
C21_DestroyLeavesNothing ==
  [][(DestroyResume(1) /\ lastOp' = Op("destroy", "ok", NoEntity))
       => /\ pool' = {}
          /\ \A c \in Components : owners'[c] = {}]_vars

\* C27: world.onReady() resolves only when the world is initialized at the
\* time it is awaited, and rejects with WorldStateError when the world has
\* been destroyed or is in error.
C27_OnReadyFollowsState ==
  [][OnReady => (lastOp'.outcome = "ok" <=> state = "initialized")]_vars

\* C22: in every reachable state the number of entities owning a component
\* constructed with maxEntities = n is at most n.
C22_OwnersWithinMaxEntities ==
  \A c \in Components :
    maxEntities(c) # 0 => Cardinality(owners[c]) <= maxEntities(c)

\* C23: constructing a Query raises SpecError whenever a component appears
\* in more than one of the all/any/none sets or when none of the three sets
\* is non-empty (all absent or empty); otherwise construction succeeds and
\* each set holds its components without duplicates.
C23_QueryConstruction ==
  probe.pc = "done" =>
    LET given(array) == { array.items[i] : i \in DOMAIN array.items }
        all == given(probe.spec.all)
        any == given(probe.spec.any)
        none == given(probe.spec.none)
        invalid == \/ all \cap any # {}
                   \/ all \cap none # {}
                   \/ any \cap none # {}
                   \/ all \cup any \cup none = {}
        holds(array, set) ==
          /\ { array[i] : i \in DOMAIN array } = set
          /\ \A i, j \in DOMAIN array : i # j => array[i] # array[j]
    IN  IF invalid THEN probe.query.err = "SpecError"
        ELSE /\ probe.query.err = ""
             /\ holds(probe.query.all, all)
             /\ holds(probe.query.any, any)
             /\ holds(probe.query.none, none)

\* C24: components.addToEntity and components.removeFromEntity called with
\* a component that is not registered, given by name or by descriptor,
\* raise NotRegisteredError and leave the owner bits, the changed bits, the
\* archetype membership, the entered/exited sets and the cache version as
\* they were.
C24_UnregisteredComponentRejected ==
  [][\A c \in {UnregisteredDescriptor, UnregisteredName}, e \in Entities :
       (/\ lastOp'.op \in {"addToEntity", "removeFromEntity"}
        /\ AddToEntity(c, e) \/ RemoveFromEntity(c, e))
         => /\ lastOp'.outcome = "NotRegisteredError"
            /\ UNCHANGED << owners, changed, registry, entityArchetypes, version >>]_vars

\* C25: entities.destroy(e) with e outside [0, capacity) raises
\* EntityNotFoundError and changes no state.
C25_DestroyOutOfRange ==
  [][\A e \in OutOfRange :
       (lastOp'.op = "destroyEntity" /\ DestroyEntity(e))
         => /\ lastOp'.outcome = "EntityNotFoundError"
            /\ UNCHANGED worldVars]_vars

\* C26: ArchetypeManager.update with an entity outside the range yields
\* RangeError, creates no archetype and changes no membership; setting an
\* entity to an archetype that is not in the registry yields
\* NotRegisteredError with the state unchanged.
C26_ManagerRejects ==
  [][/\ \A e \in OutOfRange, components \in SUBSET Components :
          (lastOp'.op = "update" /\ ArchetypeManagerUpdate(e, components))
            => /\ lastOp'.outcome = "RangeError"
               /\ UNCHANGED << registry, registryOrder, entityArchetypes >>
     /\ \A id \in ArchetypeIds, e \in Entities \cup OutOfRange :
          (lastOp'.op = "set" /\ ArchetypeManagerSet(id, e))
            => /\ lastOp'.outcome = "NotRegisteredError"
               /\ UNCHANGED worldVars]_vars

\* C28: the init hook of every registered system is invoked exactly once and
\* has completed before the state becomes initialized, and its destroy hook
\* exactly once before the state becomes destroyed, also when init() or
\* destroy() is called again while the first call is suspended.  So no hook
\* is awaited by two calls at once, no init hook is awaited in an
\* initialized world and no destroy hook in a destroyed one.
C28_HooksOnceBeforeTransition ==
  /\ \A k1, k2 \in Calls :
       (/\ k1 # k2
        /\ calls[k1].pc = "hook"
        /\ calls[k2].pc = "hook"
        /\ calls[k1].kind = calls[k2].kind)
         => Head(calls[k1].rest) # Head(calls[k2].rest)
  /\ state = "initialized"
       => \A k \in Calls : ~(calls[k].kind = "init" /\ calls[k].pc = "hook")
  /\ state = "destroyed"
       => \A k \in Calls : ~(calls[k].kind = "destroy" /\ calls[k].pc = "hook")

\* C29: whenever entities.query(q) answers from the cache, the cached bitset
\* was computed after the most recent global invalidation, so it is what the
\* computation gives now; and a components.query(q) between an invalidation
\* and entities.query(q) never makes entities.query(q) yield a stale result.
C29_CacheNeverStale ==
  state = "initialized" =>
    \A q \in QueryObjects :
      LET computed(w) ==
            UNION { register(w, q).registry[id].entities :
                      id \in registered(w, q).archetypes }
          fromCache(w) ==
            LET r == register(w, q)
                queryId == registered(w, q).id
            IN  /\ queryId \in DOMAIN r.entityCache
                /\ ~(lastVersionOf(r, queryId) < r.version)
          between == getComponentsFromQuery(QueryManager_invalidate(World), q)
      IN  /\ fromCache(World) => entitiesResult(World, q) = computed(World)
          /\ entitiesResult(between, q) = computed(between)

\* C30: QueryManager.invalidate(q) marks only that query stale: the next
\* entities.query(q) recomputes, and whether any other query answers from
\* the cache is as before.  invalidate() without an argument makes every
\* query recompute.
C30_InvalidateMarksStale ==
  [][/\ \A q \in QueryObjects :
          (lastOp'.op = "invalidate" /\ Invalidate(q))
            => /\ ~answersFromCache(World, q)'
               /\ \A other \in QueryObjects \ {q} :
                    answersFromCache(World, other)' = answersFromCache(World, other)
     /\ (lastOp'.op = "invalidateAll" /\ InvalidateAll)
          => \A q \in QueryObjects : ~answersFromCache(World, q)']_vars

\* C31: immediately after ArchetypeManager.refresh(queries), for every
\* registered query instance both queryArchetypes[q] and q.archetypes are
\* exactly the archetypes of the registry whose bitfield isQueryMatch accepts
\* and that have at least one member; nothing of the previous refresh stays.
C31_RefreshRebuildsIncidence ==
  [][(lastOp' = Op("refresh", "ok", NoEntity) /\ \E r \in BOOLEAN : Refresh(r))
       => \A id \in DOMAIN instancesByID' :
            LET q == instancesByID'[id]
                matching == { a \in DOMAIN registry' :
                                /\ isQueryMatch(registry'[a].bitfield, q)
                                /\ registry'[a].entities # {} }
            IN  /\ q.archetypes = matching
                /\ q.obj \in DOMAIN queryArchetypes'
                /\ queryArchetypes'[q.obj] = matching]_vars

\* A refresh has just dropped an archetype the query matched before: the
\* entity left it, and the query's set holds the archetype it moved to.
C31_Witness ==
  /\ lastOp = Op("refresh", "ok", NoEntity)
  /\ \E id \in DOMAIN instancesByID :
       /\ instancesByID[id].archetypes # {}
       /\ \E a \in DOMAIN registry :
            /\ isQueryMatch(registry[a].bitfield, instancesByID[id])
            /\ a \notin instancesByID[id].archetypes

\* C32: ArchetypeManager.update(e, components) with the component set of
\* e's current archetype returns that archetype and leaves the members,
\* entered and exited sets of every archetype, the registry and the
\* entity-to-archetype map unchanged; hence adding a component an entity
\* already owns never marks it as entered or exited.
C32_UpdateSameMaskIsNoOp ==
  [][/\ \A e \in Entities :
          getEntityArchetype(World, e) # Undefined =>
            ArchetypeManager_update(World, e,
                                    registry[entityArchetypes[e]].components) = World
     /\ \A c \in Components :
          (/\ lastOp'.op = "addToEntity"
           /\ 0 \in owners[c]
           /\ AddToEntity(c, 0))
            => \A a \in DOMAIN registry' :
                 /\ 0 \in registry'[a].entered
                      => (a \in DOMAIN registry /\ 0 \in registry[a].entered)
                 /\ 0 \in registry'[a].exited
                      => (a \in DOMAIN registry /\ 0 \in registry[a].exited)]_vars

\* C33: in every reachable state the registry holds no two archetypes with
\* the same component bitfield and holds the root (all-zero) archetype, and
\* no step of add, remove, destroy-entity or refresh removes or replaces an
\* archetype: it keeps its id, bitfield and components, its candidate memo
\* only grows, and a member leaves it only by being moved elsewhere.
C33_RegistryKeepsArchetypes ==
  [][/\ \A a, b \in DOMAIN registry :
          a # b => registry[a].bitfield # registry[b].bitfield
     /\ RootId \in DOMAIN registry
     /\ registry[RootId].bitfield = BooleanArray(ComponentCount)
     /\ \A a \in DOMAIN registry :
          /\ a \in DOMAIN registry'
          /\ registry'[a].id = registry[a].id
          /\ registry'[a].bitfield = registry[a].bitfield
          /\ registry'[a].components = registry[a].components
          /\ DOMAIN registry[a].candidateCache \subseteq DOMAIN registry'[a].candidateCache
          /\ \A e \in registry[a].entities :
               e \in registry'[a].entities \/ entityArchetypes'[e] # a]_vars

\* An archetype that was created for an entity and vacated again is still
\* in the registry, next to the root and the archetype the entity is in now.
C33_Witness ==
  /\ Cardinality(DOMAIN registry) >= 3
  /\ \E a \in DOMAIN registry :
       /\ a # RootId
       /\ registry[a].entities = {}
       /\ registry[a].candidateCache # EmptyMap

\* C34: the two paths of getEntityComponents agree: for every entity in
\* every reachable state, before and after init, the components of the
\* entity's archetype are the components whose owner bit is set for it.
C34_ComponentPathsAgree ==
  \A e \in Entities :
    getEntityComponents(World, e) = getEntityComponentsDirect(World, e)

\* C36: in every state reachable after init(), for every entity slot the
\* bitfield of its archetype has bit c set if and only if the owner bit of
\* component c is set for the entity, also for an entity that was given
\* components before init() was called.
C36_ArchetypeMatchesOwnership ==
  state = "initialized" =>
    \A e \in Entities, c \in Components :
      /\ getEntityArchetype(World, e) # Undefined
      /\ c \in registry[entityArchetypes[e]].bitfield.bits <=> e \in owners[c]

\* C35: registering a Query that lists component descriptors without an
\* instance in this world raises no error, and bit i of the and/or/not mask
\* of the compiled instance is set iff registered component i is in the
\* all/any/none set; a Query none of whose components are registered
\* compiles to three empty masks.
C35_CompilationFiltersUnregistered ==
  probe.pc = "compiled" =>
    LET set(array) == { array[i] : i \in DOMAIN array }
        instance == probe.instance[1]
    IN  /\ instance.and.bits = set(probe.query.all) \cap Components
        /\ instance.or.bits = set(probe.query.any) \cap Components
        /\ instance.not.bits = set(probe.query.none) \cap Components
        /\ (set(probe.query.all) \cup set(probe.query.any) \cup set(probe.query.none))
             \cap Components = {}
             => /\ getTruthyCount(instance.and) = 0
                /\ getTruthyCount(instance.or) = 0
                /\ getTruthyCount(instance.not) = 0

\* A Query that requires a registered and an unregistered component has
\* been compiled.
C35_Witness ==
  /\ probe.pc = "compiled"
  /\ UnregisteredDescriptor \in { probe.query.all[i] : i \in DOMAIN probe.query.all }
  /\ probe.instance[1].and.bits # {}

\* C37: in every world state and after any sequence of operations,
\* archetypes.queryEntities(q), which iterates the archetypes, and
\* entities.query(q), which answers from the version-stamped cache, yield
\* the same set of entities.
C37_QueryPathsAgree ==
  \A q \in QueryObjects :
    queryArchetypeEntities(World, q) = entitiesResult(World, q)

\* C38: when two iterators of archetypes.queryEntities, queryEntered or
\* queryExited are consumed in interleaved fashion, each still yields every
\* entity of its matching archetypes exactly once.  So a step of an iterator
\* never passes over an entity it has not yielded: if the next entity of the
\* archetype it is scanning has not been yielded by it, this step yields it.
C38_InterleavedNeverSkips ==
  [][(/\ generator.pc = "suspended"
      /\ generator.archetypes # << >>
      /\ GeneratorNext)
       => LET rest == { e \in Archetype_iterated(registry[Head(generator.archetypes)],
                                                 generator.kind) :
                          e >= generator.pos }
              entity == CHOOSE e \in rest : \A x \in rest : e <= x
          IN  (/\ rest # {}
               /\ \A i \in DOMAIN generator.yielded : generator.yielded[i] # entity)
                => generator'.yielded = Append(generator.yielded, entity)]_vars

\* C39: in every reachable state no result bitset is at the same time in
\* the result pool's free list and held by the entity cache, no two query
\* ids of the entity cache hold the same bitset, and every bitset of the
\* free list is all-zero.
C39_PoolAndCacheDisjoint ==
  /\ \A i \in DOMAIN free, queryId \in DOMAIN entityCache :
       free[i] # entityCache[queryId]
  /\ \A a, b \in DOMAIN entityCache :
       a # b => entityCache[a] # entityCache[b]
  /\ \A i \in DOMAIN free : arrays[free[i]] = {}

\* Two results were cached and released by clear(); one bitset has been
\* taken from the free list again and holds a result, the other is free.
C39_Witness ==
  /\ free # << >>
  /\ \E queryId \in DOMAIN entityCache : arrays[entityCache[queryId]] # {}


\* C40: every entity whose changed bit is set for a component also owns that
\* component, so getChanged(component) yields only owners, whatever sequence
\* of proxy cursor moves, proxy writes, adds, removes and refreshes ran.
C40_ChangedImpliesOwner ==
  \A component \in Components :
    \A entity \in getChanged(World, component) :
      entity \in World.owners[component]

============================================================================
